---- MODULE Spec2Model ----
(***************************************************************************)
(* A model of justpath's `show` command (src/justpath/show.py).            *)
(*                                                                         *)
(* Strings are sequences of one-character strings, so that split, join,    *)
(* lower, Path normalisation and realpath are computed character by        *)
(* character.  The file system is a fixed POSIX (case-sensitive) tree:     *)
(*     /bin   directory          /A   directory                            *)
(*     /w:w   directory (cwd)    /a   symbolic link to /f                  *)
(*     /f     regular file                                                 *)
(* and nothing else exists (/BIN and /nonexistent do not).                 *)
(* Terminal colour (get_color, the `color` option) is not modelled.        *)
(***************************************************************************)
EXTENDS Integers, Sequences, FiniteSets, TLC

VARIABLES environ, pc, args, path_var, rows, out, prev

vars == <<environ, pc, args, path_var, rows, out, prev>>

(* ------------------------------ bounds -------------------------------- *)

\* Largest number of entries of a PATH value that Init draws.
MaxEntries == 3

(* ------------------------------ strings ------------------------------- *)

Upper == <<"A","B","C","D","E","F","G","H","I","J","K","L","M",
           "N","O","P","Q","R","S","T","U","V","W","X","Y","Z">>

Lower == <<"a","b","c","d","e","f","g","h","i","j","k","l","m",
           "n","o","p","q","r","s","t","u","v","w","x","y","z">>

\* str.lower() on one character
lowerChar(c) ==
    IF \E k \in DOMAIN Upper : Upper[k] = c
    THEN Lower[CHOOSE k \in DOMAIN Upper : Upper[k] = c]
    ELSE c

\* str.lower()
lower(s) == [k \in DOMAIN s |-> lowerChar(s[k])]

\* ord(c), the code point that orders strings
ord(c) ==
    IF \E k \in DOMAIN Upper : Upper[k] = c
    THEN 64 + (CHOOSE k \in DOMAIN Upper : Upper[k] = c)
    ELSE IF \E k \in DOMAIN Lower : Lower[k] = c
    THEN 96 + (CHOOSE k \in DOMAIN Lower : Lower[k] = c)
    ELSE IF c = "." THEN 46
    ELSE IF c = "/" THEN 47
    ELSE 58

\* a < b for strings (lexicographic by code point)
RECURSIVE strLess(_, _)
strLess(a, b) ==
    IF b = <<>> THEN FALSE
    ELSE IF a = <<>> THEN TRUE
    ELSE IF ord(Head(a)) # ord(Head(b)) THEN ord(Head(a)) < ord(Head(b))
    ELSE strLess(Tail(a), Tail(b))

\* `sub in s`
isSubstring(sub, s) ==
    \E k \in 0..(Len(s) - Len(sub)) : SubSeq(s, k + 1, k + Len(sub)) = sub

\* s.split(sep) for a one-character separator
RECURSIVE split(_, _)
split(s, sep) ==
    IF \E k \in 1..Len(s) : s[k] = sep
    THEN LET k == CHOOSE k \in 1..Len(s) :
                    s[k] = sep /\ \A j \in 1..(k - 1) : s[j] # sep
         IN  <<SubSeq(s, 1, k - 1)>> \o split(SubSeq(s, k + 1, Len(s)), sep)
    ELSE <<s>>

\* sep.join(xs)
RECURSIVE join(_, _)
join(sep, xs) ==
    IF xs = <<>> THEN <<>>
    ELSE IF Len(xs) = 1 THEN xs[1]
    ELSE xs[1] \o sep \o join(sep, Tail(xs))

pathsep == ":"

(* ---------------------------- file system ----------------------------- *)

P_root == <<"/">>
P_bin == <<"/","b","i","n">>
P_binSlash == <<"/","b","i","n","/">>
P_BIN == <<"/","B","I","N">>
P_nonexistent == <<"/","n","o","n","e","x","i","s","t","e","n","t">>
P_f == <<"/","f">>
P_A == <<"/","A">>
P_a == <<"/","a">>
P_w == <<"/","w",":","w">>
P_dot == <<".">>

Dirs == {P_root, P_bin, P_A, P_w}

Files == {P_f}

Symlinks == (P_a :> P_f)

Cwd == P_w

\* the components of a path: empty components and "." are dropped
RECURSIVE dropEmpty(_)
dropEmpty(cs) ==
    IF cs = <<>> THEN <<>>
    ELSE IF Head(cs) = <<>> \/ Head(cs) = P_dot THEN dropEmpty(Tail(cs))
    ELSE <<Head(cs)>> \o dropEmpty(Tail(cs))

components(s) == dropEmpty(split(s, "/"))

isabs(s) == s # <<>> /\ Head(s) = "/"

\* str(Path(s)): repeated and trailing separators and "." components are
\* removed; the empty path is "."
PathStr(s) ==
    IF isabs(s) THEN P_root \o join(<<"/">>, components(s))
    ELSE IF components(s) = <<>> THEN P_dot
    ELSE join(<<"/">>, components(s))

\* os.path.realpath: absolute, normalised, symbolic links resolved
RECURSIVE resolve(_, _)
resolve(done, rest) ==
    IF rest = <<>> THEN P_root \o join(<<"/">>, done)
    ELSE LET cand == done \o <<Head(rest)>>
             name == P_root \o join(<<"/">>, cand)
         IN  IF name \in DOMAIN Symlinks
             THEN resolve(components(resolve(<<>>, components(Symlinks[name]))),
                          Tail(rest))
             ELSE resolve(cand, Tail(rest))

realpath(s) ==
    resolve(<<>>, components(IF isabs(s) THEN s ELSE Cwd \o <<"/">> \o s))

\* os.path.exists / os.path.isdir (both follow symbolic links)
exists(s) == realpath(s) \in Dirs \cup Files

isdir(s) == realpath(s) \in Dirs

(* -------------------------------- rows -------------------------------- *)

\* PathVar.populate: the entries of PATH, keyed 1..n, each a Path
populate(value) ==
    LET paths == split(value, pathsep)
    IN  [k \in 1..Len(paths) |-> PathStr(paths[k])]

\* len(str(n)) for n >= 0
RECURSIVE digits(_)
digits(n) == IF n < 10 THEN 1 ELSE 1 + digits(n \div 10)

\* PathVar.max_digits (the keys of a populated PathVar are 1..n)
max_digits(pv) == IF pv = <<>> THEN 0 ELSE digits(Len(pv))

\* The values of Row.error: two exception classes or None.  An exception
\* instance is a different object from its class.
FileNotFoundError == [object |-> "class", name |-> "FileNotFoundError"]
NotADirectoryError == [object |-> "class", name |-> "NotADirectoryError"]
None == [object |-> "None", name |-> "None"]
NotADirectoryErrorInstance == [object |-> "instance", name |-> "NotADirectoryError"]

\* Row.error
error(row) ==
    IF ~exists(row.path) THEN FileNotFoundError
    ELSE IF ~isdir(row.path) THEN NotADirectoryError
    ELSE None

\* Row.has_error
has_error(row) == error(row) # None

\* Counter([realpath(p) for p in paths])[key]
counter(paths, key) == Cardinality({k \in DOMAIN paths : realpath(paths[k]) = key})

\* make_rows: Row(i, Path(path), counter[realpath(path)]) for i, path in
\* enumerate(paths)
make_rows(paths) ==
    [k \in DOMAIN paths |->
        [i |-> k - 1,
         path |-> PathStr(paths[k]),
         count |-> counter(paths, realpath(paths[k]))]]

\* to_rows
to_rows(pv) == make_rows(pv)

\* unseen_before: the first occurrence of every element, in order
RECURSIVE unseen_from(_, _)
unseen_from(xs, seen) ==
    IF xs = <<>> THEN <<>>
    ELSE IF Head(xs) \in seen THEN unseen_from(Tail(xs), seen)
    ELSE <<Head(xs)>> \o unseen_from(Tail(xs), seen \cup {Head(xs)})

unseen_before(xs) == unseen_from(xs, {})

\* no_duplicates
no_duplicates(rs) ==
    make_rows(unseen_before([k \in DOMAIN rs |-> lower(realpath(rs[k].path))]))

\* sorted(rows, key=lambda r: realpath(r.path)): a stable sort
RECURSIVE insert(_, _)
insert(sortedRows, r) ==
    IF sortedRows = <<>> THEN <<r>>
    ELSE LET last == sortedRows[Len(sortedRows)]
         IN  IF strLess(realpath(r.path), realpath(last.path))
             THEN insert(SubSeq(sortedRows, 1, Len(sortedRows) - 1), r) \o <<last>>
             ELSE sortedRows \o <<r>>

RECURSIVE sorted(_)
sorted(rs) ==
    IF rs = <<>> THEN <<>>
    ELSE insert(sorted(SubSeq(rs, 1, Len(rs) - 1)), rs[Len(rs)])

\* the tests of the list comprehensions of modify_rows and show_stats
keep_duplicates(row) == row.count > 1
keep_invalid(row) == has_error(row)
keep_valid(row) == ~has_error(row)

\* modify_rows: the stages in the order of the code
modify_rows(rs, a) ==
    LET r1 == IF a.sort THEN sorted(rs) ELSE rs
        r2 == IF a.duplicates THEN SelectSeq(r1, keep_duplicates) ELSE r1
        r3 == IF a.purge_duplicates THEN no_duplicates(r2) ELSE r2
        r4 == IF a.invalid THEN SelectSeq(r3, keep_invalid) ELSE r3
        r5 == IF a.purge_invalid THEN SelectSeq(r4, keep_valid) ELSE r4
        r6 == IF a.includes # <<>>
              THEN SelectSeq(r5, LAMBDA row :
                       isSubstring(lower(a.includes), lower(realpath(row.path))))
              ELSE r5
        r7 == IF a.excludes # <<>>
              THEN SelectSeq(r6, LAMBDA row :
                       ~isSubstring(lower(a.excludes), lower(realpath(row.path))))
              ELSE r6
    IN  r7

(* ------------------------------ printing ------------------------------ *)

\* get_postfix: the items of the annotation; the code prints them joined by
\* ", " in parentheses, or nothing when there is none
get_postfix(row) ==
    LET e == IF error(row) = FileNotFoundError
             THEN <<<<"directory does not exist">>>>
             ELSE IF error(row) = NotADirectoryErrorInstance
             THEN <<<<"not a directory">>>>
             ELSE <<>>
        d == IF row.count > 1 THEN <<<<"duplicates: ", row.count>>>> ELSE <<>>
    IN  e \o d

\* print_row: the index right-justified to width n, the path, the postfix
print_row(row, n) ==
    [kind |-> "text", index |-> row.i, width |-> n,
     path |-> row.path, postfix |-> get_postfix(row)]

\* show_stats with the duplicated directories counted once each, not per row
show_stats_groups(value, json) ==
    LET pv == populate(value)
        rs == to_rows(pv)
        e == Len(SelectSeq(rs, has_error))
        d == Cardinality({realpath(rs[k].path) : k \in {j \in DOMAIN rs : rs[j].count > 1}})
    IN  IF json
        THEN <<[kind |-> "stats_json", total |-> Len(pv), invalid |-> e, duplicates |-> d]>>
        ELSE <<[kind |-> "stats", words |-> <<Len(pv), "directories in your PATH">>],
               [kind |-> "stats", words |-> <<e, IF e > 1 THEN "do" ELSE "does", "not exist">>],
               [kind |-> "stats", words |-> <<d, IF d > 1 THEN "duplicates" ELSE "">>]>>

\* show_stats: what it prints
show_stats(value, json) ==
    LET pv == populate(value)
        t == Len(pv)
        rs == to_rows(pv)
        e == Len(SelectSeq(rs, has_error))
        d == Len(SelectSeq(rs, keep_duplicates))
    IN  IF json
        THEN <<[kind |-> "stats_json", total |-> t, invalid |-> e, duplicates |-> d]>>
        ELSE <<[kind |-> "stats", words |-> <<t, "directories in your PATH">>],
               [kind |-> "stats", words |-> <<e, IF e > 1 THEN "do" ELSE "does", "not exist">>],
               [kind |-> "stats", words |-> <<d, IF d > 1 THEN "duplicates" ELSE "">>]>>

\* present with the paths of string mode joined by ", " as get_postfix joins
present_comma(rs, pv, string, json, bare) ==
    LET paths == [k \in DOMAIN rs |-> rs[k].path]
    IN  IF string THEN <<[kind |-> "string", text |-> join(<<",", " ">>, paths)]>>
        ELSE IF json THEN <<[kind |-> "json", value |-> paths]>>
        ELSE IF bare THEN [k \in DOMAIN rs |-> [kind |-> "bare", path |-> rs[k].path]]
        ELSE [k \in DOMAIN rs |-> print_row(rs[k], max_digits(pv))]

\* the last part of show: what it prints for the modified rows
present(rs, pv, string, json, bare) ==
    LET paths == [k \in DOMAIN rs |-> rs[k].path]
    IN  IF string THEN <<[kind |-> "string", text |-> join(<<pathsep>>, paths)]>>
        ELSE IF json THEN <<[kind |-> "json", value |-> paths]>>
        ELSE IF bare THEN [k \in DOMAIN rs |-> [kind |-> "bare", path |-> rs[k].path]]
        ELSE [k \in DOMAIN rs |-> print_row(rs[k], max_digits(pv))]

(* ------------------------------- inputs ------------------------------- *)

\* the entries a PATH value is made of; the empty entry is a relative path
Entries == {P_bin, P_binSlash, P_BIN, P_nonexistent, P_f, P_A, <<>>}

EntryLists == UNION {[1..n -> Entries] : n \in 1..MaxEntries}

\* os.environ: PATH is unset, or set to a list of entries
Environs ==
    {<<>>} \cup {[PATH |-> join(<<pathsep>>, es)] : es \in EntryLists}

\* the values drawn for the includes and excludes options
IncludesValues == {<<>>, <<"B","i","n">>}
ExcludesValues == {<<>>, <<"F">>}

\* the defaults of the options that reach modify_rows
DefaultArgs ==
    [sort |-> FALSE, duplicates |-> FALSE, purge_duplicates |-> FALSE,
     invalid |-> FALSE, purge_invalid |-> FALSE,
     includes |-> <<>>, excludes |-> <<>>]

(* ------------------------------ the run ------------------------------- *)
(* One run of show.  An option is an input of the run; it is drawn at the  *)
(* step that reads it, and the arguments modify_rows is called with are    *)
(* kept in args.  pc: "start", then "exit" (sys.exit(0) of raw and count), *)
(* "KeyError" (os.environ["PATH"] raised), or "to_rows", "modify",         *)
(* "print", "done".                                                        *)

Init ==
    /\ environ \in Environs
    /\ pc = "start"
    /\ args = DefaultArgs
    /\ path_var = <<>>
    /\ rows = <<>>
    /\ out = <<>>
    /\ prev = <<>>

\* show with raw: show_raw(), sys.exit(0)
ShowRaw ==
    /\ pc = "start"
    /\ \E raw \in BOOLEAN :
        /\ raw
        /\ IF "PATH" \in DOMAIN environ
           THEN /\ out' = <<[kind |-> "raw", text |-> environ.PATH]>>
                /\ pc' = "exit"
           ELSE /\ out' = out
                /\ pc' = "KeyError"
    /\ UNCHANGED <<environ, args, path_var, rows, prev>>

\* show with count: show_stats(json), sys.exit(0)
ShowStats ==
    /\ pc = "start"
    /\ \E raw, count, json \in BOOLEAN :
        /\ ~raw /\ count
        /\ IF "PATH" \in DOMAIN environ
           THEN /\ out' = show_stats(environ.PATH, json)
                /\ pc' = "exit"
           ELSE /\ out' = out
                /\ pc' = "KeyError"
    /\ UNCHANGED <<environ, args, path_var, rows, prev>>

\* Populate reading PATH as os.environ.get("PATH", "") would
Populate_get ==
    /\ pc = "start"
    /\ \E raw, count \in BOOLEAN :
        /\ ~raw /\ ~count
        /\ path_var' = populate(IF "PATH" \in DOMAIN environ THEN environ.PATH ELSE <<>>)
        /\ pc' = "to_rows"
    /\ UNCHANGED <<environ, args, rows, out, prev>>

\* path_var = PathVar.populate()
Populate ==
    /\ pc = "start"
    /\ \E raw, count \in BOOLEAN :
        /\ ~raw /\ ~count
        /\ IF "PATH" \in DOMAIN environ
           THEN /\ path_var' = populate(environ.PATH)
                /\ pc' = "to_rows"
           ELSE /\ path_var' = path_var
                /\ pc' = "KeyError"
    /\ UNCHANGED <<environ, args, rows, out, prev>>

\* rows = to_rows(path_var)
ToRows ==
    /\ pc = "to_rows"
    /\ rows' = to_rows(path_var)
    /\ pc' = "modify"
    /\ UNCHANGED <<environ, args, path_var, out, prev>>

\* correct sets both purge options; rows = modify_rows(rows, ...)
Modify ==
    /\ pc = "modify"
    /\ \E correct, sort, duplicates, purge_duplicates, invalid, purge_invalid \in BOOLEAN :
       \E includes \in IncludesValues, excludes \in ExcludesValues :
        LET a == [sort |-> sort, duplicates |-> duplicates,
                  purge_duplicates |-> (correct \/ purge_duplicates),
                  invalid |-> invalid,
                  purge_invalid |-> (correct \/ purge_invalid),
                  includes |-> includes, excludes |-> excludes]
        IN  /\ args' = a
            /\ rows' = modify_rows(rows, a)
    /\ pc' = "print"
    /\ UNCHANGED <<environ, path_var, out, prev>>

\* the output of the modified rows
Present ==
    /\ pc = "print"
    /\ \E string, json, bare \in BOOLEAN :
        out' = present(rows, path_var, string, json, bare)
    /\ pc' = "done"
    /\ UNCHANGED <<environ, args, path_var, rows, prev>>

Next == ShowRaw \/ ShowStats \/ Populate \/ ToRows \/ Modify \/ Present

Spec == Init /\ [][Next]_vars

(* no_duplicates applied to its own result, on the rows to_rows builds *)

PurgeOnce ==
    /\ pc = "modify"
    /\ rows' = no_duplicates(rows)
    /\ pc' = "purged"
    /\ UNCHANGED <<environ, args, path_var, out, prev>>

PurgeAgain ==
    /\ pc = "purged"
    /\ prev' = rows
    /\ rows' = no_duplicates(rows)
    /\ pc' = "purged_twice"
    /\ UNCHANGED <<environ, args, path_var, out>>

NextPurge == Populate \/ ToRows \/ PurgeOnce \/ PurgeAgain

SpecPurge == Init /\ [][NextPurge]_vars

(* ------------------------------- claims ------------------------------- *)

\* the canonical form of a path: fully resolved and case-folded
canonical(p) == lower(realpath(p))

\* the entries of the source list, as written in PATH
source == split(environ.PATH, pathsep)

\* the Row Builder's output for the populated PathVar
built == to_rows(path_var)

\* the validity of a row
validity(row) ==
    IF error(row) = FileNotFoundError THEN "NotFound"
    ELSE IF error(row) = NotADirectoryError THEN "NotADirectory"
    ELSE "Valid"

\* position k holds the first occurrence of its canonical form in rs
isFirst(rs, k) ==
    \A j \in 1..(k - 1) : canonical(rs[j].path) # canonical(rs[k].path)

\* the source list of the scenario: /bin, /bin, /nonexistent
ScenarioPATH == join(<<pathsep>>, <<P_bin, P_bin, P_nonexistent>>)

\* C1: the Row Builder produces one Row per entry of the source list, in the
\* same order, and each Row's index is the 1-based position of its entry.
C1_OneRowPerEntry ==
    pc = "modify" =>
        /\ Len(rows) = Len(source)
        /\ \A k \in DOMAIN rows :
            /\ rows[k].path = PathStr(source[k])
            /\ rows[k].i = k

\* C2: duplicate_count of every built row is the number of entries of the
\* full input whose canonical (resolved, case-folded) form equals the row's.
C2_CountByCanonicalForm ==
    pc = "modify" =>
        \A k \in DOMAIN rows :
            rows[k].count =
                Cardinality({j \in DOMAIN source :
                                canonical(source[j]) = canonical(source[k])})

\* modify_rows was called with purge_duplicates alone
OnlyPurgeDuplicates == [DefaultArgs EXCEPT !.purge_duplicates = TRUE]

\* C3: purge-duplicates alone on /bin, /bin, /nonexistent leaves two rows,
\* the first occurrence of each canonical path with the index of its entry:
\* index 1 /bin and index 3 /nonexistent.
C3_PurgeKeepsFirstWithIndex ==
    (/\ pc = "print"
     /\ args = OnlyPurgeDuplicates
     /\ environ.PATH = ScenarioPATH) =>
        /\ Len(rows) = 2
        /\ rows[1].path = P_bin /\ rows[1].i = 1
        /\ rows[2].path = P_nonexistent /\ rows[2].i = 3

\* count mode with JSON output has run on the scenario's source list
C4_StatsOfScenario ==
    /\ pc = "exit"
    /\ "PATH" \in DOMAIN environ
    /\ environ.PATH = ScenarioPATH
    /\ Len(out) = 1
    /\ out[1].kind = "stats_json"

\* C4 (as amended): count mode with JSON output on /bin, /bin, /nonexistent
\* gives total 3, invalid 1, duplicates 2: both /bin rows are counted.
C4_StatsJson ==
    C4_StatsOfScenario =>
        out[1] = [kind |-> "stats_json", total |-> 3, invalid |-> 1, duplicates |-> 2]

\* C4 as claimed: the same run gives total 3, invalid 1, duplicates 1.
C4_StatsJsonAsClaimed ==
    C4_StatsOfScenario =>
        out[1] = [kind |-> "stats_json", total |-> 3, invalid |-> 1, duplicates |-> 1]

\* C5: no_duplicates applied to the result of no_duplicates yields the same
\* row sequence as applying it once.
C5_PurgeIdempotent == pc = "purged_twice" => rows = prev

\* the run has not got past the lookup of PATH: nothing built, nothing printed
C6_Aborted ==
    /\ pc \in {"start", "KeyError"}
    /\ path_var = <<>>
    /\ rows = <<>>
    /\ out = <<>>

\* C6 (as amended): with PATH unset, show aborts before any Row is built and
\* prints nothing, in raw and count mode too.
C6_UnsetIsFatal == "PATH" \notin DOMAIN environ => C6_Aborted

\* C6 as claimed: with PATH unset or set to the empty string, show aborts
\* before any Row is built and prints nothing.
C6_UnsetOrEmptyIsFatal ==
    ("PATH" \notin DOMAIN environ \/ environ.PATH = <<>>) => C6_Aborted

\* the run with PATH unset has ended in the KeyError
C6_Witness == "PATH" \notin DOMAIN environ /\ pc = "KeyError"

\* C7: in text mode the annotation of a row lists "directory does not exist"
\* exactly when the row is NotFound, "not a directory" exactly when it is
\* NotADirectory, and "duplicates: N" exactly when its count N exceeds 1.
C7_Annotation ==
    pc = "done" =>
        \A k \in DOMAIN out :
            out[k].kind = "text" =>
                LET items == {out[k].postfix[n] : n \in DOMAIN out[k].postfix}
                IN  /\ <<"directory does not exist">> \in items
                        <=> validity(rows[k]) = "NotFound"
                    /\ <<"not a directory">> \in items
                        <=> validity(rows[k]) = "NotADirectory"
                    /\ <<"duplicates: ", rows[k].count>> \in items
                        <=> rows[k].count > 1

\* string mode has printed the modified rows
C8_StringMode == pc = "done" /\ Len(out) = 1 /\ out[1].kind = "string"

\* the displayed paths of the filtered rows
displayed == [k \in DOMAIN rows |-> rows[k].path]

\* C8 (as amended): when the filtered sequence is not empty and no displayed
\* path contains the separator, the string-mode output split on the
\* separator is the sequence of displayed paths.
C8_SplitOfString ==
    (/\ C8_StringMode
     /\ rows # <<>>
     /\ \A k \in DOMAIN rows : ~isSubstring(<<pathsep>>, rows[k].path)) =>
        split(out[1].text, pathsep) = displayed

\* C8 as claimed: the string-mode output split on the separator is the
\* sequence of displayed paths, also when the filtered sequence is empty.
C8_SplitOfStringAlways ==
    C8_StringMode => split(out[1].text, pathsep) = displayed

\* string mode has printed two or more rows
C8_Witness == C8_StringMode /\ Len(rows) > 1

\* row r of the pipeline comes from row b of the Row Builder: it shows b's
\* path, or the canonical form that purge-duplicates puts in its place
comesFrom(r, b) == r.path = b.path \/ r.path = canonical(b.path)

\* C9: every row of the pipeline's output has the duplicate_count it had in
\* the Row Builder's output, whatever stages ran.
C9_CountTakenOnce ==
    pc = "print" =>
        \A k \in DOMAIN rows :
            \E j \in DOMAIN built :
                comesFrom(rows[k], built[j]) /\ rows[k].count = built[j].count

\* modify_rows was called as the correct option calls it
CorrectArgs ==
    [DefaultArgs EXCEPT !.purge_duplicates = TRUE, !.purge_invalid = TRUE]

\* C10: purge-duplicates followed by purge-invalid (the correct mode) keeps
\* exactly one row, the representative, for every canonical group whose
\* first occurrence is Valid.
C10_CorrectKeepsValidGroups ==
    (pc = "print" /\ args = CorrectArgs) =>
        \A j \in DOMAIN built :
            (isFirst(built, j) /\ validity(built[j]) = "Valid") =>
                Cardinality({k \in DOMAIN rows :
                                rows[k].path = canonical(built[j].path)}) = 1

====
